---- MODULE Spec2Model ----
(***************************************************************************)
(* RepairAll: the Presentation Shell (App.tsx), the Guide Orchestrator     *)
(* (services/geminiService.ts, generateRepairGuide) and the entry point    *)
(* (index.tsx) as one state machine.                                       *)
(*                                                                         *)
(* A JavaScript value that may be null or undefined is a set with at most  *)
(* one element: Null (= Undefined) is the empty set, Some(x) is {x}.       *)
(* One action is one run-to-completion segment of the event loop: a user   *)
(* event handler, or the continuation of an await.                         *)
(***************************************************************************)
EXTENDS Integers, Sequences, FiniteSets, TLC

VARIABLES
    auth0Domain,         \* index.tsx: VITE_AUTH0_DOMAIN is set
    auth0ClientId,       \* index.tsx: VITE_AUTH0_CLIENT_ID is set
    apiKey,              \* geminiService.ts: process.env.API_KEY is set
    isAuthLoading,       \* useAuth0().isLoading
    isAuthenticated,     \* useAuth0().isAuthenticated
    problemDescription,  \* App state
    imageFile,           \* App state, File | null
    previewUrl,          \* App state, string | null
    guide,               \* App state, RepairGuide | null
    isLoading,           \* App state
    loadingMessage,      \* App state
    error,               \* App state, string | null
    pc,                  \* where generateRepairGuide is suspended
    request,             \* the arguments of the latest generateRepairGuide call
    plan,                \* generateRepairGuide: plan (after JSON.parse)
    index,               \* generateRepairGuide: index + 1 of the loop
    generatedSteps,      \* generateRepairGuide: generatedSteps
    promise,             \* the promise returned by generateRepairGuide
    calls,               \* service calls of this invocation, in order
    progressLog          \* messages given to updateLoadingMessage, each with
                         \* the number of service calls issued before it

envVars == <<auth0Domain, auth0ClientId, apiKey>>
authVars == <<isAuthLoading, isAuthenticated>>
formVars == <<problemDescription, imageFile, previewUrl>>
shellVars == <<problemDescription, imageFile, previewUrl, guide, isLoading,
               loadingMessage, error>>
orchVars == <<pc, request, plan, index, generatedSteps, promise, calls,
              progressLog>>
vars == <<auth0Domain, auth0ClientId, apiKey, isAuthLoading, isAuthenticated,
          problemDescription, imageFile, previewUrl, guide, isLoading,
          loadingMessage, error, pc, request, plan, index, generatedSteps,
          promise, calls, progressLog>>

----------------------------------------------------------------------------
(* Bounds of the model *)

\* Longest steps array the reasoning service returns.
MaxPlanLen == 6

\* File sizes range over MaxUploadBytes - SizeMargin .. MaxUploadBytes + SizeMargin.
SizeMargin == 1

----------------------------------------------------------------------------
(* null / undefined *)

Null == {}

Undefined == {}

Some(x) == {x}

Unwrap(m) == CHOOSE x \in m : TRUE

----------------------------------------------------------------------------
(* Inputs *)

\* The values typed into the description textarea.
Descriptions == {"", "Cracked wooden chair leg"}

\* 4 * 1024 * 1024, the size limit of handleFileChange.
MaxUploadBytes == 4 * 1024 * 1024

FileSizes == (MaxUploadBytes - SizeMargin)..(MaxUploadBytes + SizeMargin)

\* The files the picker can deliver; a file is told apart by its size.
Files == [size : FileSizes]

\* The image payloads the image service returns (imageBytes).
ImageBytes == {"imgA", "imgB"}

\* How the reasoning service numbers the steps of a plan.
Numberings == {"sequential", "repeated", "fromZero"}

StepNumberAt(numbering, i) ==
    CASE numbering = "sequential" -> i
      [] numbering = "repeated"   -> 1
      [] numbering = "fromZero"   -> i - 1

\* Which field the last step of a plan lacks.
Defects == {"none", "imagePrompt", "description"}

PlanStepAt(numbering, defect, n, i) ==
    [stepNumber  |-> Some(StepNumberAt(numbering, i)),
     description |-> IF defect = "description" /\ i = n THEN Undefined
                     ELSE Some("description " \o ToString(i)),
     imagePrompt |-> IF defect = "imagePrompt" /\ i = n THEN Undefined
                     ELSE Some("prompt " \o ToString(i))]

SafetyWarnings == {Null, Some("Unplug the device before starting.")}

\* The JSON values the reasoning service can put in its response: the schema
\* is a request to the service, the code accepts whatever JSON comes back.
PlanValues ==
    {[safetyWarning |-> w, steps |-> Undefined] : w \in SafetyWarnings}
    \cup
    {[safetyWarning |-> w,
      steps |-> Some([i \in 1..n |-> PlanStepAt(nb, df, n, i)])] :
        w \in SafetyWarnings, n \in 0..MaxPlanLen,
        nb \in Numberings, df \in Defects}

\* planningResponse.text: undefined, a text that is not JSON, or JSON text.
ResponseTexts ==
    {Undefined}
    \cup {Some([valid |-> FALSE, value |-> Null])}
    \cup {Some([valid |-> TRUE, value |-> Some(p)]) : p \in PlanValues}

\* imageGenerationResponse.generatedImages: undefined, [] or one image.
GeneratedImages ==
    {Undefined, Some(<<>>)} \cup {Some(<<b>>) : b \in ImageBytes}

----------------------------------------------------------------------------
(* Thrown values *)

JsError(msg) == [isError |-> TRUE, message |-> msg]

\* A rejection value that is not an Error instance (FileReader's onerror).
NonError == [isError |-> FALSE, message |-> ""]

ApiKeyError == JsError("API_KEY environment variable is not set.")

MalformedPlanError ==
    JsError("The AI returned an unexpected format. Please try again.")

ShowMaybeInt(m) == IF m = Undefined THEN "undefined" ELSE ToString(Unwrap(m))

ImageGenerationError(stepNumber) ==
    JsError("Failed to generate an image for step "
            \o ShowMaybeInt(stepNumber) \o ".")

TypeErrorOf(what) ==
    JsError("Cannot read properties of undefined (reading '" \o what \o "')")

\* What a failing service call rejects with.
ServiceErrors == {JsError("503 Service Unavailable"), JsError("")}

----------------------------------------------------------------------------
(* Messages *)

StartingMessage == "Starting the repair guide generation..."

AnalyzingMessage == "Analyzing item and planning repair..."

StepMessage(i, n) ==
    "Generating image for step " \o ToString(i) \o " of " \o ToString(n)
    \o "..."

FileTooLargeMessage ==
    "Image file is too large. Please select a file under 4MB."

ValidationMessage == "Please provide a description and an image."

UnknownErrorMessage == "An unknown error occurred."

----------------------------------------------------------------------------
(* Pure helpers of the code *)

\* URL.createObjectURL(file)
CreateObjectURL(file) == "blob:" \o ToString(file.size)

\* `data:image/jpeg;base64,${base64ImageData}`
DataUrl(bytes) == "data:image/jpeg;base64," \o bytes

\* JSON.parse: the parsed value, or Null when it throws.
JSONParse(text) == IF text.valid THEN text.value ELSE Null

\* error instanceof Error ? error.message : "An unknown error occurred."
DisplayMessage(e) == IF e.isError THEN e.message ELSE UnknownErrorMessage

Pending == [status |-> "pending", guide |-> Null, error |-> Null]

Fulfilled(g) == [status |-> "fulfilled", guide |-> Some(g), error |-> Null]

Rejected(e) == [status |-> "rejected", guide |-> Null, error |-> Some(e)]

NoPromise == [status |-> "none", guide |-> Null, error |-> Null]

----------------------------------------------------------------------------
(* Rendering *)

\* index.tsx: the configuration-error page is rendered instead of the app.
ConfigErrorRendered == ~auth0Domain \/ ~auth0ClientId

\* AppMounted when one of the two settings is enough to mount the app.
AppMountedEitherSetting == auth0Domain \/ auth0ClientId

\* index.tsx: the Auth0Provider and the App are rendered.
AppMounted == auth0Domain /\ auth0ClientId

AuthGateRendered == AppMounted /\ isAuthLoading

LoggedOutRendered == AppMounted /\ ~isAuthLoading /\ ~isAuthenticated

MainRendered == AppMounted /\ ~isAuthLoading /\ isAuthenticated

\* FormRendered without the identity provider's early returns.
FormRenderedIgnoresAuth == AppMounted /\ guide = Null /\ ~isLoading

FormRendered == MainRendered /\ guide = Null /\ ~isLoading

LoadingRendered == MainRendered /\ isLoading

ResultRendered == MainRendered /\ guide # Null

\* The views of App that are on screen.
RenderedViews ==
    {v \in {"AuthGate", "LoggedOut", "Form", "Loading", "Result"} :
        \/ v = "AuthGate" /\ AuthGateRendered
        \/ v = "LoggedOut" /\ LoggedOutRendered
        \/ v = "Form" /\ FormRendered
        \/ v = "Loading" /\ LoadingRendered
        \/ v = "Result" /\ ResultRendered}

\* disabled={!problemDescription || !imageFile || isLoading}
GenerateDisabled == problemDescription = "" \/ imageFile = Null \/ isLoading

----------------------------------------------------------------------------
(* Initial state *)

InitShell ==
    /\ problemDescription = ""
    /\ imageFile = Null
    /\ previewUrl = Null
    /\ guide = Null
    /\ isLoading = FALSE
    /\ loadingMessage = ""
    /\ error = Null

InitOrchestrator ==
    /\ pc = "idle"
    /\ request = Null
    /\ plan = Null
    /\ index = 0
    /\ generatedSteps = <<>>
    /\ promise = NoPromise
    /\ calls = <<>>
    /\ progressLog = <<>>

Init ==
    /\ auth0Domain \in BOOLEAN
    /\ auth0ClientId \in BOOLEAN
    /\ apiKey \in BOOLEAN
    /\ isAuthLoading = TRUE
    /\ isAuthenticated = FALSE
    /\ InitShell
    /\ InitOrchestrator

----------------------------------------------------------------------------
(* Identity provider and page loads *)

\* The Auth0 SDK finishes initialising and reports the session.
AuthResolved ==
    /\ AuthGateRendered
    /\ isAuthLoading' = FALSE
    /\ isAuthenticated' \in BOOLEAN
    /\ UNCHANGED <<envVars, shellVars, orchVars>>

\* No generateRepairGuide invocation is left: its locals are gone.
ForgetInvocation ==
    /\ pc' = "idle"
    /\ plan' = Null
    /\ index' = 0
    /\ generatedSteps' = <<>>
    /\ promise' = NoPromise
    /\ calls' = <<>>
    /\ progressLog' = <<>>

\* A redirect leaves the page; on return the app is loaded afresh, every
\* useState at its initial value.
PageReload ==
    /\ isAuthLoading' = TRUE
    /\ isAuthenticated' = FALSE
    /\ problemDescription' = ""
    /\ imageFile' = Null
    /\ previewUrl' = Null
    /\ guide' = Null
    /\ isLoading' = FALSE
    /\ loadingMessage' = ""
    /\ error' = Null
    /\ ForgetInvocation
    /\ request' = Null
    /\ UNCHANGED envVars

\* onClick={() => loginWithRedirect()}
loginWithRedirect ==
    /\ LoggedOutRendered
    /\ PageReload

\* onClick={() => logout({ logoutParams: { returnTo: window.location.origin } })}
logout ==
    /\ MainRendered
    /\ PageReload

----------------------------------------------------------------------------
(* Form handlers *)

\* onChange={(e) => setProblemDescription(e.target.value)}
setProblemDescription ==
    /\ FormRendered
    /\ \E d \in Descriptions : problemDescription' = d
    /\ UNCHANGED <<envVars, authVars, imageFile, previewUrl, guide, isLoading,
                   loadingMessage, error, orchVars>>

\* TooLarge refusing a file of exactly the limit.
TooLargeAtLimit(file) == file.size >= MaxUploadBytes

\* The limit test of handleFileChange.
TooLarge(file) == file.size > MaxUploadBytes

\* FileChange storing an accepted file without creating its preview URL.
FileChangeKeepsPreview(picked) ==
    IF picked = Undefined
    THEN UNCHANGED <<imageFile, previewUrl, error>>
    ELSE IF TooLarge(Unwrap(picked))
         THEN /\ error' = Some(FileTooLargeMessage)
              /\ UNCHANGED <<imageFile, previewUrl>>
         ELSE /\ imageFile' = picked
              /\ error' = Null
              /\ UNCHANGED previewUrl

\* FileChange discarding the selected image when an oversized file is picked.
FileChangeDropsImage(picked) ==
    IF picked = Undefined
    THEN UNCHANGED <<imageFile, previewUrl, error>>
    ELSE IF TooLarge(Unwrap(picked))
         THEN /\ error' = Some(FileTooLargeMessage)
              /\ imageFile' = Null
              /\ previewUrl' = Null
         ELSE /\ imageFile' = picked
              /\ previewUrl' = Some(CreateObjectURL(Unwrap(picked)))
              /\ error' = Null

\* handleFileChange with event.target.files?.[0] = picked (Undefined when the
\* picker is dismissed).
FileChange(picked) ==
    IF picked = Undefined
    THEN UNCHANGED <<imageFile, previewUrl, error>>
    ELSE IF TooLarge(Unwrap(picked))
         THEN /\ error' = Some(FileTooLargeMessage)
              /\ UNCHANGED <<imageFile, previewUrl>>
         ELSE /\ imageFile' = picked
              /\ previewUrl' = Some(CreateObjectURL(Unwrap(picked)))
              /\ error' = Null

handleFileChange ==
    /\ FormRendered
    /\ \E picked \in {Undefined} \cup {Some(f) : f \in Files} :
           FileChange(picked)
    /\ UNCHANGED <<envVars, authVars, problemDescription, guide, isLoading,
                   loadingMessage, orchVars>>

\* handleReset without setImageFile(null).
handleResetKeepsImage ==
    /\ ResultRendered
    /\ problemDescription' = ""
    /\ previewUrl' = Null
    /\ guide' = Null
    /\ error' = Null
    /\ UNCHANGED <<envVars, authVars, imageFile, isLoading, loadingMessage,
                   orchVars>>

\* handleReset, the "Start a New Repair" button of the result view.
handleReset ==
    /\ ResultRendered
    /\ problemDescription' = ""
    /\ imageFile' = Null
    /\ previewUrl' = Null
    /\ guide' = Null
    /\ error' = Null
    /\ UNCHANGED <<envVars, authVars, isLoading, loadingMessage, orchVars>>

----------------------------------------------------------------------------
(* generateRepairGuide *)

\* A service call: the service, the prompt of an image call, how it ended
\* and, once it has returned, Some(what it returned).
ReasoningCall ==
    [service |-> "generateContent", prompt |-> Null, status |-> "pending",
     result |-> Null]

ImageCall(prompt) ==
    [service |-> "generateImages", prompt |-> prompt, status |-> "pending",
     result |-> Null]

\* The last call of cs has settled.
Settle(cs, status, result) ==
    [cs EXCEPT ![Len(cs)].status = status, ![Len(cs)].result = result]

\* updateLoadingMessage(message), called after the service calls cs.
Progress(message, cs) == [message |-> message, callsMade |-> Len(cs)]

\* throw: the promise of generateRepairGuide is rejected with e.
Throw(e) ==
    /\ promise' = Rejected(e)
    /\ pc' = "done"

\* One TutorialStep, as pushed on generatedSteps.
TutorialStep(step, bytes) ==
    [stepNumber  |-> step.stepNumber,
     description |-> step.description,
     imageUrl    |-> DataUrl(bytes)]

\* The guide object of the return statement.
AssembleGuide(p, gs) == [safetyWarning |-> p.safetyWarning, steps |-> gs]

\* LoopFrom asking for the image of the first step at every iteration.
LoopFromFirstPrompt(p, gs, i, cs) ==
    LET steps == Unwrap(p.steps)
        n == Len(steps)
    IN  /\ generatedSteps' = gs
        /\ IF i > n
           THEN /\ promise' = Fulfilled(AssembleGuide(p, gs))
                /\ pc' = "done"
                /\ calls' = cs
                /\ UNCHANGED <<index, loadingMessage, progressLog>>
           ELSE /\ loadingMessage' = StepMessage(i, n)
                /\ progressLog' = Append(progressLog,
                                        Progress(StepMessage(i, n), cs))
                /\ calls' = Append(cs, ImageCall(steps[1].imagePrompt))
                /\ index' = i
                /\ pc' = "imaging"
                /\ UNCHANGED promise

\* LoopFrom reporting the 0-based index of the step.
LoopFromZeroBasedMessage(p, gs, i, cs) ==
    LET steps == Unwrap(p.steps)
        n == Len(steps)
    IN  /\ generatedSteps' = gs
        /\ IF i > n
           THEN /\ promise' = Fulfilled(AssembleGuide(p, gs))
                /\ pc' = "done"
                /\ calls' = cs
                /\ UNCHANGED <<index, loadingMessage, progressLog>>
           ELSE /\ loadingMessage' = StepMessage(i - 1, n)
                /\ progressLog' = Append(progressLog,
                                        Progress(StepMessage(i - 1, n), cs))
                /\ calls' = Append(cs, ImageCall(steps[i].imagePrompt))
                /\ index' = i
                /\ pc' = "imaging"
                /\ UNCHANGED promise

\* LoopFrom issuing the image call of the next step without awaiting this one.
LoopFromNoAwait(p, gs, i, cs) ==
    LET steps == Unwrap(p.steps)
        n == Len(steps)
    IN  /\ generatedSteps' = gs
        /\ IF i > n
           THEN /\ promise' = Fulfilled(AssembleGuide(p, gs))
                /\ pc' = "done"
                /\ calls' = cs
                /\ UNCHANGED <<index, loadingMessage, progressLog>>
           ELSE /\ loadingMessage' = StepMessage(i, n)
                /\ progressLog' = Append(progressLog,
                                        Progress(StepMessage(i, n), cs))
                /\ calls' = IF i < n
                            THEN cs \o <<ImageCall(steps[i].imagePrompt),
                                         ImageCall(steps[i + 1].imagePrompt)>>
                            ELSE Append(cs, ImageCall(steps[i].imagePrompt))
                /\ index' = i
                /\ pc' = "imaging"
                /\ UNCHANGED promise

\* LoopFrom leaving the loop one iteration early.
LoopFromStopsEarly(p, gs, i, cs) ==
    LET steps == Unwrap(p.steps)
        n == Len(steps)
    IN  /\ generatedSteps' = gs
        /\ IF i >= n
           THEN /\ promise' = Fulfilled(AssembleGuide(p, gs))
                /\ pc' = "done"
                /\ calls' = cs
                /\ UNCHANGED <<index, loadingMessage, progressLog>>
           ELSE /\ loadingMessage' = StepMessage(i, n)
                /\ progressLog' = Append(progressLog,
                                        Progress(StepMessage(i, n), cs))
                /\ calls' = Append(cs, ImageCall(steps[i].imagePrompt))
                /\ index' = i
                /\ pc' = "imaging"
                /\ UNCHANGED promise

\* The for loop from its i-th iteration (1-based), with generatedSteps = gs
\* and the service calls cs made so far: either the loop is over and the
\* guide is returned, or the progress message is emitted and the image call
\* of step i is issued.
LoopFrom(p, gs, i, cs) ==
    LET steps == Unwrap(p.steps)
        n == Len(steps)
    IN  /\ generatedSteps' = gs
        /\ IF i > n
           THEN /\ promise' = Fulfilled(AssembleGuide(p, gs))
                /\ pc' = "done"
                /\ calls' = cs
                /\ UNCHANGED <<index, loadingMessage, progressLog>>
           ELSE /\ loadingMessage' = StepMessage(i, n)
                /\ progressLog' = Append(progressLog,
                                        Progress(StepMessage(i, n), cs))
                /\ calls' = Append(cs, ImageCall(steps[i].imagePrompt))
                /\ index' = i
                /\ pc' = "imaging"
                /\ UNCHANGED promise

\* BeginGenerate without the test of the API key.
BeginGenerateNoKeyCheck ==
    /\ request' = Some([description |-> problemDescription,
                        image |-> imageFile])
    /\ plan' = Null
    /\ index' = 0
    /\ generatedSteps' = <<>>
    /\ calls' = <<>>
    /\ loadingMessage' = AnalyzingMessage
    /\ progressLog' = <<Progress(AnalyzingMessage, <<>>)>>
    /\ promise' = Pending
    /\ pc' = "readFile"

\* generateRepairGuide up to its first await, called by handleGenerateGuide.
BeginGenerate ==
    /\ request' = Some([description |-> problemDescription,
                        image |-> imageFile])
    /\ plan' = Null
    /\ index' = 0
    /\ generatedSteps' = <<>>
    /\ calls' = <<>>
    /\ IF ~apiKey
       THEN /\ Throw(ApiKeyError)
            /\ loadingMessage' = StartingMessage
            /\ progressLog' = <<>>
       ELSE /\ loadingMessage' = AnalyzingMessage
            /\ progressLog' = <<Progress(AnalyzingMessage, <<>>)>>
            /\ promise' = Pending
            /\ pc' = "readFile"

\* handleGenerateGuide reachable from every view of the main application.
handleGenerateGuideAnyView ==
    /\ MainRendered
    /\ IF problemDescription = "" \/ imageFile = Null
       THEN /\ error' = Some(ValidationMessage)
            /\ UNCHANGED <<guide, isLoading, loadingMessage, orchVars>>
       ELSE /\ error' = Null
            /\ isLoading' = TRUE
            /\ guide' = Null
            /\ BeginGenerate
    /\ UNCHANGED <<envVars, authVars, formVars>>

\* handleGenerateGuide without setError(null).
handleGenerateGuideKeepsError ==
    /\ FormRendered
    /\ IF problemDescription = "" \/ imageFile = Null
       THEN /\ error' = Some(ValidationMessage)
            /\ UNCHANGED <<guide, isLoading, loadingMessage, orchVars>>
       ELSE /\ UNCHANGED error
            /\ isLoading' = TRUE
            /\ guide' = Null
            /\ BeginGenerate
    /\ UNCHANGED <<envVars, authVars, formVars>>

\* handleGenerateGuide validating the description only.
handleGenerateGuideIgnoresImage ==
    /\ FormRendered
    /\ IF problemDescription = ""
       THEN /\ error' = Some(ValidationMessage)
            /\ UNCHANGED <<guide, isLoading, loadingMessage, orchVars>>
       ELSE /\ error' = Null
            /\ isLoading' = TRUE
            /\ guide' = Null
            /\ BeginGenerate
    /\ UNCHANGED <<envVars, authVars, formVars>>

\* handleGenerateGuide up to its await.
handleGenerateGuide ==
    /\ FormRendered
    /\ IF problemDescription = "" \/ imageFile = Null
       THEN /\ error' = Some(ValidationMessage)
            /\ UNCHANGED <<guide, isLoading, loadingMessage, orchVars>>
       ELSE /\ error' = Null
            /\ isLoading' = TRUE
            /\ guide' = Null
            /\ BeginGenerate
    /\ UNCHANGED <<envVars, authVars, formVars>>

\* The Generate Guide button: a disabled button delivers no click.
ClickGenerate ==
    /\ ~GenerateDisabled
    /\ handleGenerateGuide

\* handleGenerateGuide called whatever the button's state.
InvokeGenerate == handleGenerateGuide

\* fileToBase64 settles: reader.onload, or reader.onerror.
FileRead ==
    /\ pc = "readFile"
    /\ \E loaded \in BOOLEAN :
          IF loaded
          THEN /\ calls' = Append(calls, ReasoningCall)
               /\ pc' = "planning"
               /\ UNCHANGED promise
          ELSE /\ Throw(NonError)
               /\ UNCHANGED calls
    /\ UNCHANGED <<envVars, authVars, shellVars, request, plan, index,
                   generatedSteps, progressLog>>

\* ai.models.generateContent rejects.
PlanningFails ==
    /\ pc = "planning"
    /\ \E e \in ServiceErrors : Throw(e)
    /\ calls' = Settle(calls, "threw", Null)
    /\ UNCHANGED <<envVars, authVars, shellVars, request, plan, index,
                   generatedSteps, progressLog>>

\* The code after the await of generateContent, for planningResponse.text =
\* text: trim, JSON.parse and the first iteration of the loop.
AfterPlanning(text, cs) ==
    IF text = Undefined
    THEN /\ Throw(TypeErrorOf("trim"))
         /\ calls' = cs
         /\ UNCHANGED <<plan, index, generatedSteps, loadingMessage,
                        progressLog>>
    ELSE IF JSONParse(Unwrap(text)) = Null
         THEN /\ Throw(MalformedPlanError)
              /\ calls' = cs
              /\ UNCHANGED <<plan, index, generatedSteps, loadingMessage,
                             progressLog>>
         ELSE LET parsed == JSONParse(Unwrap(text))
              IN  /\ plan' = parsed
                  /\ IF Unwrap(parsed).steps = Undefined
                     THEN /\ Throw(TypeErrorOf("entries"))
                          /\ calls' = cs
                          /\ UNCHANGED <<index, generatedSteps,
                                         loadingMessage, progressLog>>
                     ELSE LoopFrom(Unwrap(parsed), <<>>, 1, cs)

\* ai.models.generateContent resolves.
PlanningReturns ==
    /\ pc = "planning"
    /\ \E text \in ResponseTexts :
           AfterPlanning(text, Settle(calls, "returned", Some(text)))
    /\ UNCHANGED <<envVars, authVars, formVars, guide, isLoading, error,
                   request>>

\* ai.models.generateImages rejects.
ImageFails ==
    /\ pc = "imaging"
    /\ \E e \in ServiceErrors : Throw(e)
    /\ calls' = Settle(calls, "threw", Null)
    /\ UNCHANGED <<envVars, authVars, shellVars, request, plan, index,
                   generatedSteps, progressLog>>

\* AfterImage going on to the next step when no image came back.
AfterImageSkipsEmpty(images, cs) ==
    LET p == Unwrap(plan)
        step == Unwrap(p.steps)[index]
    IN  IF images = Undefined \/ Len(Unwrap(images)) = 0
        THEN LoopFrom(p, generatedSteps, index + 1, cs)
        ELSE LoopFrom(p,
                      Append(generatedSteps,
                             TutorialStep(step, Unwrap(images)[1])),
                      index + 1, cs)

\* The code after the await of generateImages, for
\* imageGenerationResponse.generatedImages = images.
AfterImage(images, cs) ==
    LET p == Unwrap(plan)
        step == Unwrap(p.steps)[index]
    IN  IF images = Undefined \/ Len(Unwrap(images)) = 0
        THEN /\ Throw(ImageGenerationError(step.stepNumber))
             /\ calls' = cs
             /\ UNCHANGED <<index, generatedSteps, loadingMessage,
                            progressLog>>
        ELSE LoopFrom(p,
                      Append(generatedSteps,
                             TutorialStep(step, Unwrap(images)[1])),
                      index + 1, cs)

\* ai.models.generateImages resolves.
ImageReturns ==
    /\ pc = "imaging"
    /\ \E images \in GeneratedImages :
           AfterImage(images, Settle(calls, "returned", Some(images)))
    /\ UNCHANGED <<envVars, authVars, formVars, guide, isLoading, error,
                   request, plan>>

\* GenerateSettled resetting the loading state on success only.
GenerateSettledNoFinally ==
    /\ pc = "done"
    /\ IF promise.status = "fulfilled"
       THEN /\ guide' = promise.guide
            /\ isLoading' = FALSE
            /\ loadingMessage' = ""
            /\ UNCHANGED error
       ELSE /\ error' = Some(DisplayMessage(Unwrap(promise.error)))
            /\ UNCHANGED <<guide, isLoading, loadingMessage>>
    /\ ForgetInvocation
    /\ UNCHANGED <<envVars, authVars, formVars, request>>

\* GenerateSettled storing the guide without leaving the loading state.
GenerateSettledKeepsLoading ==
    /\ pc = "done"
    /\ IF promise.status = "fulfilled"
       THEN /\ guide' = promise.guide
            /\ UNCHANGED <<error, isLoading, loadingMessage>>
       ELSE /\ error' = Some(DisplayMessage(Unwrap(promise.error)))
            /\ isLoading' = FALSE
            /\ loadingMessage' = ""
            /\ UNCHANGED guide
    /\ ForgetInvocation
    /\ UNCHANGED <<envVars, authVars, formVars, request>>

\* GenerateSettled dropping the selected image when the invocation failed.
GenerateSettledClearsImage ==
    /\ pc = "done"
    /\ IF promise.status = "fulfilled"
       THEN /\ guide' = promise.guide
            /\ UNCHANGED <<error, imageFile, previewUrl>>
       ELSE /\ error' = Some(DisplayMessage(Unwrap(promise.error)))
            /\ imageFile' = Null
            /\ previewUrl' = Null
            /\ UNCHANGED guide
    /\ isLoading' = FALSE
    /\ loadingMessage' = ""
    /\ ForgetInvocation
    /\ UNCHANGED <<envVars, authVars, problemDescription, request>>

\* GenerateSettled without the catch and finally blocks.
GenerateSettledOnlyOnSuccess ==
    /\ pc = "done"
    /\ promise.status = "fulfilled"
    /\ guide' = promise.guide
    /\ isLoading' = FALSE
    /\ loadingMessage' = ""
    /\ ForgetInvocation
    /\ UNCHANGED <<envVars, authVars, formVars, error, request>>

\* GenerateSettled storing the guide without its safety warning.
GenerateSettledDropsWarning ==
    /\ pc = "done"
    /\ IF promise.status = "fulfilled"
       THEN /\ guide' = Some([Unwrap(promise.guide)
                                  EXCEPT !.safetyWarning = Null])
            /\ UNCHANGED error
       ELSE /\ error' = Some(DisplayMessage(Unwrap(promise.error)))
            /\ UNCHANGED guide
    /\ isLoading' = FALSE
    /\ loadingMessage' = ""
    /\ ForgetInvocation
    /\ UNCHANGED <<envVars, authVars, formVars, request>>

\* GenerateSettled without setLoadingMessage("").
GenerateSettledKeepsMessage ==
    /\ pc = "done"
    /\ IF promise.status = "fulfilled"
       THEN /\ guide' = promise.guide
            /\ UNCHANGED error
       ELSE /\ error' = Some(DisplayMessage(Unwrap(promise.error)))
            /\ UNCHANGED guide
    /\ isLoading' = FALSE
    /\ ForgetInvocation
    /\ UNCHANGED <<envVars, authVars, formVars, loadingMessage, request>>

\* handleGenerateGuide after its await: setGuide, or catch, then finally.
GenerateSettled ==
    /\ pc = "done"
    /\ IF promise.status = "fulfilled"
       THEN /\ guide' = promise.guide
            /\ UNCHANGED error
       ELSE /\ error' = Some(DisplayMessage(Unwrap(promise.error)))
            /\ UNCHANGED guide
    /\ isLoading' = FALSE
    /\ loadingMessage' = ""
    /\ ForgetInvocation
    /\ UNCHANGED <<envVars, authVars, formVars, request>>

----------------------------------------------------------------------------
(* Specifications *)

\* The steps of the orchestrator and of the identity provider.
Background ==
    \/ AuthResolved
    \/ loginWithRedirect
    \/ logout
    \/ setProblemDescription
    \/ handleFileChange
    \/ handleReset
    \/ FileRead
    \/ PlanningFails
    \/ PlanningReturns
    \/ ImageFails
    \/ ImageReturns
    \/ GenerateSettled

\* The application as the user drives it.
Next == Background \/ ClickGenerate

Spec == Init /\ [][Next]_vars

\* The application with handleGenerateGuide called directly.
NextHandler == Background \/ InvokeGenerate

SpecHandler == Init /\ [][NextHandler]_vars

\* The continuations of the awaits of generateRepairGuide and of
\* handleGenerateGuide: at most one is pending at a time.
OrchestratorStep ==
    \/ FileRead
    \/ PlanningFails
    \/ PlanningReturns
    \/ ImageFails
    \/ ImageReturns
    \/ GenerateSettled

\* Spec where every awaited promise settles (the file read completes, each
\* service call returns or fails) and the event loop then runs the pending
\* continuation. The user's actions carry no fairness.
SpecFair == Spec /\ WF_vars(OrchestratorStep)

----------------------------------------------------------------------------
(* Vocabulary of the properties *)

\* The image-service calls of the invocation.
ImageCallIndexes ==
    {c \in 1..Len(calls) : calls[c].service = "generateImages"}

\* planningResponse.text of the invocation, once generateContent has returned
\* (empty before).
ReturnedTexts ==
    {t \in ResponseTexts :
        /\ Len(calls) >= 1
        /\ calls[1].status = "returned"
        /\ calls[1].result = Some(t)}

\* A step with its three required fields.
StepHasShape(step) ==
    /\ step.stepNumber # Undefined
    /\ step.description # Undefined
    /\ step.imagePrompt # Undefined

\* The response text parses to an object with a steps array of whole steps.
HasPlanShape(text) ==
    /\ text # Undefined
    /\ Unwrap(text).valid
    /\ LET p == Unwrap(Unwrap(text).value)
       IN  /\ p.steps # Undefined
           /\ \A i \in 1..Len(Unwrap(p.steps)) :
                  StepHasShape(Unwrap(p.steps)[i])

\* The steps of the parsed plan.
PlanSteps == Unwrap(Unwrap(plan).steps)

\* The image call of step k (call k + 1) returned no image.
ZeroImages(k) ==
    /\ k + 1 <= Len(calls)
    /\ calls[k + 1].service = "generateImages"
    /\ calls[k + 1].status = "returned"
    /\ calls[k + 1].result \in {Some(Undefined), Some(Some(<<>>))}

\* The step leaves the page loaded (no redirect).
StaysOnPage == ~isAuthLoading'

----------------------------------------------------------------------------
(* C1 *)

\* C1: when the text the reasoning service returned does not have the
\* RepairPlan shape (no text, not JSON, no steps array, a step without one of
\* its fields), generateRepairGuide has failed with the malformed-plan error
\* and has made no image-service call.
C1_MalformedPlanRejected ==
    \A t \in ReturnedTexts :
        ~HasPlanShape(t) =>
            /\ promise = Rejected(MalformedPlanError)
            /\ ImageCallIndexes = {}

----------------------------------------------------------------------------
(* C2 *)

\* The state of an invocation whose image call for step k returned no image.
FailedAtStep(k) ==
    /\ Len(calls) = k + 1
    /\ pc = "done"
    /\ promise = Rejected(ImageGenerationError(PlanSteps[k].stepNumber))
    /\ guide = Null

\* C2: when the image service returns no image for step k, the invocation
\* has failed with the image-generation error that carries the stepNumber of
\* step k, the call of step k is the last call made, and the Shell's guide is
\* null then and after the next step, which stores the error message.
C2_ZeroImagesAbort ==
    /\ [](\A k \in 1..Len(calls) : ZeroImages(k) => FailedAtStep(k))
    /\ [][\A k \in 1..Len(calls) :
            ZeroImages(k) /\ StaysOnPage =>
                /\ guide' = Null
                /\ error' = Some(ImageGenerationError(
                                     PlanSteps[k].stepNumber).message)
                /\ ~isLoading']_vars

\* The image call of a step after the first returns no image, with the
\* earlier steps already illustrated.
C2_Witness ==
    \E k \in 2..Len(calls) :
        /\ ZeroImages(k)
        /\ Len(generatedSteps) = k - 1
        /\ promise.status = "rejected"

----------------------------------------------------------------------------
(* C3 *)

\* C3: a fulfilled invocation carries a guide with as many steps as the
\* parsed plan; a finished invocation is either fulfilled or rejected; the
\* Shell's guide slot is only ever filled with the guide of a fulfilled
\* invocation, and stays null after a rejected one.
C3_GuideLengthIsPlanLength ==
    /\ [](/\ promise.status = "fulfilled" =>
                /\ plan # Null
                /\ Len(Unwrap(promise.guide).steps) = Len(PlanSteps)
          /\ pc = "done" => promise.status \in {"fulfilled", "rejected"})
    /\ [][/\ (guide' # Null /\ guide' # guide) =>
                  (promise.status = "fulfilled" /\ guide' = promise.guide)
          /\ promise.status = "rejected" => guide' = Null]_vars

\* A three-step plan has been illustrated in full and returned.
C3_Witness ==
    /\ promise.status = "fulfilled"
    /\ Len(PlanSteps) = 3
    /\ Len(Unwrap(promise.guide).steps) = 3

----------------------------------------------------------------------------
(* C4 *)

\* C4: the guide of a fulfilled invocation has between 3 and 5 steps.
C4_ThreeToFiveSteps ==
    promise.status = "fulfilled" =>
        Len(Unwrap(promise.guide).steps) \in 3..5

----------------------------------------------------------------------------
(* C5 *)

\* C5: in the guide of a fulfilled invocation the i-th step has stepNumber i.
C5_StepNumbersSequential ==
    promise.status = "fulfilled" =>
        \A i \in 1..Len(Unwrap(promise.guide).steps) :
            Unwrap(promise.guide).steps[i].stepNumber = Some(i)

----------------------------------------------------------------------------
(* C6 *)

\* The image payload that call c returned.
ReturnedImage(c) == Unwrap(Unwrap(calls[c].result))[1]

\* C6: the guide of a fulfilled invocation has the plan's safetyWarning, and
\* its i-th step has the stepNumber and the description of the plan's i-th
\* step and the data URL of the image returned by the i-th image call, which
\* was made with the imagePrompt of the plan's i-th step.
C6_GuideIllustratesPlan ==
    promise.status = "fulfilled" =>
        LET g == Unwrap(promise.guide)
        IN  /\ g.safetyWarning = Unwrap(plan).safetyWarning
            /\ Len(g.steps) = Len(PlanSteps)
            /\ Len(calls) = Len(PlanSteps) + 1
            /\ \A i \in 1..Len(g.steps) :
                  /\ g.steps[i].stepNumber = PlanSteps[i].stepNumber
                  /\ g.steps[i].description = PlanSteps[i].description
                  /\ calls[i + 1].service = "generateImages"
                  /\ calls[i + 1].status = "returned"
                  /\ calls[i + 1].prompt = PlanSteps[i].imagePrompt
                  /\ g.steps[i].imageUrl = DataUrl(ReturnedImage(i + 1))

\* A plan with a safety warning is returned illustrated, the image service
\* having answered two of its steps with different images.
C6_Witness ==
    /\ promise.status = "fulfilled"
    /\ Unwrap(promise.guide).safetyWarning # Null
    /\ Len(Unwrap(promise.guide).steps) >= 3
    /\ Unwrap(promise.guide).steps[1].imageUrl
           # Unwrap(promise.guide).steps[2].imageUrl

----------------------------------------------------------------------------
(* C7 *)

\* C7: the Shell is loading only while an invocation is outstanding; the
\* step that follows a rejected invocation (unless it leaves the page) puts
\* the Shell in Form with isLoading false, guide null and the message of the
\* failure in error, and leaves no invocation running; an invocation starts
\* only from the Form view with the generate button enabled.
C7_FailureReturnsToForm ==
    /\ [](pc = "idle" => ~isLoading)
    /\ [][(promise.status = "rejected" /\ StaysOnPage) =>
              /\ ~isLoading'
              /\ guide' = Null
              /\ error' = Some(DisplayMessage(Unwrap(promise.error)))
              /\ FormRendered'
              /\ pc' = "idle"
              /\ promise' = NoPromise
              /\ calls' = <<>>]_vars
    /\ [][(pc = "idle" /\ pc' # "idle") =>
              (FormRendered /\ ~GenerateDisabled)]_vars

\* The Shell is back in Form showing the malformed-plan message.
C7_Witness ==
    /\ FormRendered
    /\ pc = "idle"
    /\ request # Null
    /\ error = Some(MalformedPlanError.message)

----------------------------------------------------------------------------
(* C8 *)

\* C8: loading starts only from the Form view with a description and an
\* image; handleGenerateGuide called without one of them stores the
\* validation message, starts no invocation, and leaves isLoading false and
\* guide, description, image and preview as they were.
C8_GenerateNeedsBothInputs ==
    /\ [][(~isLoading /\ isLoading') =>
              /\ FormRendered
              /\ problemDescription # ""
              /\ imageFile # Null
              /\ LoadingRendered']_vars
    /\ [][(InvokeGenerate /\ (problemDescription = "" \/ imageFile = Null)) =>
              /\ error' = Some(ValidationMessage)
              /\ ~isLoading'
              /\ pc' = "idle"
              /\ promise' = NoPromise
              /\ calls' = <<>>
              /\ UNCHANGED <<guide, problemDescription, imageFile,
                             previewUrl>>]_vars

\* The validation message is shown for a form without an image.
C8_Witness ==
    /\ FormRendered
    /\ error = Some(ValidationMessage)
    /\ problemDescription # ""
    /\ imageFile = Null
    /\ pc = "idle"

----------------------------------------------------------------------------
(* C9 *)

\* C9: a step taken in the Result view that stays on the page (the reset)
\* empties the description, nulls image, preview, guide and error, and leaves
\* the Shell in Form, not loading, with the generate button disabled.
C9_ResetClearsForm ==
    [][(ResultRendered /\ StaysOnPage) =>
           /\ problemDescription' = ""
           /\ imageFile' = Null
           /\ previewUrl' = Null
           /\ guide' = Null
           /\ error' = Null
           /\ ~isLoading'
           /\ FormRendered'
           /\ GenerateDisabled']_vars

\* The Form after a reset: an invocation has been made on this page, and the
\* image it was given is no longer selected.
C9_Witness ==
    /\ FormRendered
    /\ request # Null
    /\ pc = "idle"
    /\ imageFile = Null
    /\ problemDescription = ""
    /\ GenerateDisabled

----------------------------------------------------------------------------
(* C10 *)

\* 4 MiB in bytes.
FourMiB == 4194304

\* C10: no file larger than 4 MiB is ever the stored image; selecting a file
\* of at most 4 MiB stores it and clears the error, selecting a larger one
\* stores the too-large message and keeps the stored image.
C10_FourMiBBoundary ==
    /\ [](\A f \in imageFile : f.size <= FourMiB)
    /\ [][\A f \in Files :
            (FormRendered /\ FileChange(Some(f))) =>
                IF f.size <= FourMiB
                THEN imageFile' = Some(f) /\ error' = Null
                ELSE /\ error' = Some(FileTooLargeMessage)
                     /\ imageFile' = imageFile]_vars

\* A file of exactly 4 MiB is the stored image and a later, larger file has
\* been refused.
C10_Witness ==
    /\ imageFile = Some([size |-> FourMiB])
    /\ error = Some(FileTooLargeMessage)

----------------------------------------------------------------------------
(* C11 *)

\* C11: whenever the App is mounted exactly one of its five views is on
\* screen; Loading is never shown with Result, nor Form with either.
C11_OneViewAtATime ==
    AppMounted =>
        /\ Cardinality(RenderedViews) = 1
        /\ ~(LoadingRendered /\ ResultRendered)
        /\ ~(FormRendered /\ (LoadingRendered \/ ResultRendered))

\* A successful pipeline has just stored its guide: Result alone is shown.
C11_Witness ==
    /\ RenderedViews = {"Result"}
    /\ request # Null
    /\ pc = "idle"
    /\ ~isLoading

----------------------------------------------------------------------------
(* C12 *)

\* The progress messages an invocation has emitted when it has issued c
\* service calls for a plan of n steps: the analysis message before any call,
\* then, before the image call of step i (after 1 + (i - 1) calls), the
\* message of step i of n.
ExpectedProgress(c, n) ==
    [j \in 1..c |->
        IF j = 1 THEN [message |-> AnalyzingMessage, callsMade |-> 0]
        ELSE [message |-> StepMessage(j - 1, n), callsMade |-> j - 1]]

----------------------------------------------------------------------------
(* C13 *)

\* The service calls that have not settled.
CallsInFlight == {c \in 1..Len(calls) : calls[c].status = "pending"}

\* C13: at most one service call is in flight; a call is followed by another
\* only once it has returned; the first call is the reasoning call, and the
\* image calls follow it, after the plan is parsed, in the order of the
\* plan's steps.
C13_SequentialCalls ==
    /\ Cardinality(CallsInFlight) <= 1
    /\ \A c \in 1..(Len(calls) - 1) : calls[c].status = "returned"
    /\ Len(calls) >= 1 => calls[1].service = "generateContent"
    /\ Len(calls) >= 2 =>
          /\ plan # Null
          /\ \A c \in 2..Len(calls) :
                /\ calls[c].service = "generateImages"
                /\ c - 1 <= Len(PlanSteps)
                /\ calls[c].prompt = PlanSteps[c - 1].imagePrompt

\* The image call of step 2 is in flight, the one of step 1 has returned.
C13_Witness ==
    /\ pc = "imaging"
    /\ Len(calls) = 3
    /\ calls[2].status = "returned"
    /\ CallsInFlight = {3}

----------------------------------------------------------------------------
(* C14 *)

\* The reasoning-service calls of the invocation.
ReasoningCallIndexes ==
    {c \in 1..Len(calls) : calls[c].service = "generateContent"}

\* C14: an invocation calls the reasoning service at most once and the image
\* service at most once per step of the plan; a call that threw, a returned
\* text that does not have the RepairPlan shape, and an image call that
\* returned no image are each the last call of the invocation, which has
\* then failed.
C14_NoRetriesFirstFailureFatal ==
    /\ Cardinality(ReasoningCallIndexes) <= 1
    /\ (plan # Null /\ Unwrap(plan).steps # Undefined) =>
          /\ Cardinality(ImageCallIndexes) <= Len(PlanSteps)
          /\ Len(calls) <= 1 + Len(PlanSteps)
    /\ \A c \in 1..Len(calls) :
          calls[c].status = "threw" =>
              (c = Len(calls) /\ promise.status = "rejected")
    /\ \A t \in ReturnedTexts :
          ~HasPlanShape(t) =>
              (Len(calls) = 1 /\ promise.status = "rejected")
    /\ \A k \in 1..Len(calls) :
          ZeroImages(k) =>
              (Len(calls) = k + 1 /\ promise.status = "rejected")

----------------------------------------------------------------------------
(* C15 *)

\* C15: without an API key no service call is ever made and no progress
\* message emitted; an invocation is rejected at once with the API-key error,
\* and the step that follows (unless it leaves the page) shows that error in
\* the Form view, with no guide.
C15_MissingApiKeyFails ==
    /\ [](~apiKey =>
            /\ calls = <<>>
            /\ progressLog = <<>>
            /\ pc # "idle" =>
                  (pc = "done" /\ promise = Rejected(ApiKeyError)))
    /\ [][(~apiKey /\ pc = "done" /\ StaysOnPage) =>
              /\ error' = Some("API_KEY environment variable is not set.")
              /\ guide' = Null
              /\ FormRendered']_vars

\* Without an API key, the Form shows the API-key error after a generate.
C15_Witness ==
    /\ ~apiKey
    /\ FormRendered
    /\ request # Null
    /\ error = Some("API_KEY environment variable is not set.")

----------------------------------------------------------------------------
(* C16 *)

\* C16: with the tenant domain or the client identifier missing the
\* configuration-error page is rendered, the App is not mounted, none of its
\* views is on screen and nothing ever happens (no login, no generate, no
\* service call); with both present the App is mounted.
C16_ConfigErrorGate ==
    /\ []((~auth0Domain \/ ~auth0ClientId) =>
            /\ ConfigErrorRendered
            /\ ~AppMounted
            /\ RenderedViews = {}
            /\ ~isAuthenticated
            /\ pc = "idle"
            /\ calls = <<>>)
    /\ []((auth0Domain /\ auth0ClientId) =>
            (AppMounted /\ ~ConfigErrorRendered))
    /\ [][auth0Domain /\ auth0ClientId]_vars

\* Started with the domain but without the client identifier.
C16_Witness ==
    /\ auth0Domain
    /\ ~auth0ClientId
    /\ ConfigErrorRendered
    /\ RenderedViews = {}

----------------------------------------------------------------------------
(* C17 *)

\* C17: while the Shell is loading, error and guide are null and the form
\* holds what was submitted; a step that keeps the Shell loading changes no
\* Shell variable but the loading message; the step that ends loading on the
\* page leaves description, image and preview as they were, and after a
\* failure the Form is shown with the generate button enabled.
C17_PipelineFrame ==
    /\ [](isLoading =>
            /\ error = Null
            /\ guide = Null
            /\ request = Some([description |-> problemDescription,
                               image |-> imageFile]))
    /\ [][(isLoading /\ isLoading') =>
              UNCHANGED <<problemDescription, imageFile, previewUrl, error,
                          guide>>]_vars
    /\ [][(isLoading /\ ~isLoading' /\ StaysOnPage) =>
              /\ UNCHANGED <<problemDescription, imageFile, previewUrl>>
              /\ promise.status = "rejected" =>
                    (FormRendered' /\ ~GenerateDisabled')]_vars

\* After a service failure the Form still holds the submitted report.
C17_Witness ==
    /\ FormRendered
    /\ pc = "idle"
    /\ error = Some("503 Service Unavailable")
    /\ request = Some([description |-> problemDescription,
                       image |-> imageFile])
    /\ ~GenerateDisabled

----------------------------------------------------------------------------
(* C18 *)

\* C18: a step that puts the file-too-large message into the error slot
\* changes nothing else (description, image, preview, guide, loading flag,
\* loading message, orchestrator), and a generate action submits the image
\* and description the form holds at that moment.
C18_OversizedFileSetsOnlyError ==
    /\ [][(error' = Some(FileTooLargeMessage) /\ error' # error) =>
              UNCHANGED <<envVars, authVars, problemDescription, imageFile,
                          previewUrl, guide, isLoading, loadingMessage,
                          orchVars>>]_vars
    /\ [][(~isLoading /\ isLoading') =>
              /\ UNCHANGED <<problemDescription, imageFile, previewUrl>>
              /\ request' = Some([description |-> problemDescription,
                                  image |-> imageFile])]_vars

\* An oversized file was refused after a smaller one had been accepted.
C18_Witness ==
    /\ imageFile = Some([size |-> FourMiB - 1])
    /\ previewUrl = Some(CreateObjectURL([size |-> FourMiB - 1]))
    /\ error = Some(FileTooLargeMessage)
    /\ ~GenerateDisabled

----------------------------------------------------------------------------
(* C19 *)

\* C19 as stated, in its finite form: every step that ends Loading shows
\* the Result, or the Form with an error stored. Logging out while Loading
\* is such a step and shows neither.
C19_NothingCancels ==
    [][(isLoading /\ ~isLoading') =>
          (ResultRendered' \/ (FormRendered' /\ error' # Null))]_vars

\* C19 amended: while the user stays on the page a started pipeline keeps
\* running until handleGenerateGuide settles it, and that step shows the
\* Result or the Form with an error stored; only leaving the page (log out)
\* ends it otherwise. When every awaited call settles, each Loading state
\* is followed by the Result, the Form with an error stored, or the
\* identity gate of the reloaded page.
C19_LoadingEndsUnlessLoggedOut ==
    /\ [](isLoading <=> pc # "idle")
    /\ [][(isLoading /\ StaysOnPage) =>
              \/ isLoading' /\ pc' # "idle"
              \/ /\ pc = "done"
                 /\ ResultRendered' \/ (FormRendered' /\ error' # Null)]_vars
    /\ [][(isLoading /\ ~StaysOnPage) => MainRendered /\ AuthGateRendered']_vars
    /\ isLoading ~> \/ ResultRendered
                    \/ FormRendered /\ error # Null
                    \/ AuthGateRendered

\* A pipeline whose second image call failed has returned the Shell to the
\* Form.
C19_Witness ==
    /\ FormRendered
    /\ pc = "idle"
    /\ request # Null
    /\ error = Some(ImageGenerationError(Some(2)).message)

----------------------------------------------------------------------------
(* C20 *)

\* C20: while the identity status is unresolved only the AuthGate view is
\* rendered; once resolved and not authenticated only the LoggedOut view;
\* Form, Loading or Result are rendered only for an authenticated user, and
\* every step on the page that changes the Shell's state or starts or
\* advances a pipeline is taken while the user is authenticated.
C20_IdentityFirst ==
    /\ [](AppMounted =>
            /\ isAuthLoading => RenderedViews = {"AuthGate"}
            /\ (~isAuthLoading /\ ~isAuthenticated) =>
                   RenderedViews = {"LoggedOut"}
            /\ RenderedViews \cap {"Form", "Loading", "Result"} # {} =>
                   (isAuthenticated /\ ~isAuthLoading))
    /\ []((isAuthLoading \/ ~isAuthenticated) =>
            /\ shellVars = <<"", Null, Null, Null, FALSE, "", Null>>
            /\ pc = "idle")
    /\ [][((shellVars' # shellVars \/ pc' # pc) /\ StaysOnPage) =>
              (isAuthenticated /\ ~isAuthLoading)]_vars

\* The identity provider resolved to "not authenticated".
C20_Witness ==
    /\ RenderedViews = {"LoggedOut"}
    /\ ~isAuthLoading
    /\ ~isAuthenticated

----------------------------------------------------------------------------
(* C21 *)

----------------------------------------------------------------------------
(* C22 *)

\* C22: the stored image and the preview are both null or both those of one
\* file; a step in the Form view that stays on the page and changes the
\* image or the preview, or clears an error without starting a pipeline,
\* stores a file of at most 4 MiB with the preview URL created from it and a
\* null error, and leaves description, guide, loading flag, loading message
\* and orchestrator unchanged.
C22_SelectionReplacesImageAndPreview ==
    /\ [](/\ imageFile = Null <=> previewUrl = Null
          /\ \A f \in imageFile : previewUrl = Some(CreateObjectURL(f)))
    /\ [][(/\ FormRendered
           /\ StaysOnPage
           /\ \/ imageFile' # imageFile
              \/ previewUrl' # previewUrl
              \/ error # Null /\ error' = Null /\ ~isLoading') =>
              /\ \E f \in Files :
                    /\ f.size <= FourMiB
                    /\ imageFile' = Some(f)
                    /\ previewUrl' = Some(CreateObjectURL(f))
              /\ error' = Null
              /\ UNCHANGED <<problemDescription, guide, isLoading,
                             loadingMessage, orchVars>>]_vars

\* After an invocation, a file other than the submitted one is selected and
\* previewed.
C22_Witness ==
    /\ pc = "idle"
    /\ request # Null
    /\ imageFile # Null
    /\ Unwrap(request).image # imageFile
    /\ previewUrl = Some(CreateObjectURL(Unwrap(imageFile)))
    /\ error = Null

----------------------------------------------------------------------------
(* C23 *)

\* C23: the step that follows a rejected invocation (unless it leaves the
\* page) stores the failure's message when the failure is an Error carrying
\* one and "An unknown error occurred." otherwise, so the stored error is
\* neither null nor the empty string.
C23_ErrorIsMessageOrGeneric ==
    [][(promise.status = "rejected" /\ StaysOnPage) =>
          LET e == Unwrap(promise.error)
          IN  /\ error' = Some(IF e.isError /\ e.message # ""
                               THEN e.message
                               ELSE UnknownErrorMessage)
              /\ error' # Null
              /\ error' # Some("")]_vars

----------------------------------------------------------------------------
(* C24 *)

\* C24: a step that starts an invocation of generateRepairGuide is taken
\* from the Form view with no invocation outstanding, none loading and no
\* guide stored; while an invocation is outstanding the Loading view alone
\* is rendered; and while the Shell is loading or holds a guide the generate
\* action cannot be taken.
C24_OnePipelineAtATime ==
    /\ [][(/\ pc' # pc
           /\ \/ pc' = "readFile"
              \/ /\ pc' = "done"
                 /\ calls' = <<>>
                 /\ promise' = Rejected(ApiKeyError)) =>
              /\ pc = "idle"
              /\ promise = NoPromise
              /\ calls = <<>>
              /\ RenderedViews = {"Form"}
              /\ ~isLoading
              /\ guide = Null
              /\ isLoading']_vars
    /\ [](pc # "idle" =>
            /\ RenderedViews = {"Loading"}
            /\ promise.status # "none")
    /\ []((isLoading \/ guide # Null \/ pc # "idle") =>
            ~ENABLED ClickGenerate)

\* The reasoning call of an invocation is pending and the generate button
\* is not available.
C24_Witness ==
    /\ pc = "planning"
    /\ RenderedViews = {"Loading"}
    /\ CallsInFlight = {1}
    /\ problemDescription # ""
    /\ imageFile # Null
    /\ GenerateDisabled

----------------------------------------------------------------------------
(* C25 *)

\* C25: a guide and an error are never stored together, and neither is
\* stored while the Shell is loading; the step that enters Loading leaves
\* error and guide null, a step that stores an error stores no guide and a
\* step that stores a guide stores no error.
C25_GuideAndErrorExclusive ==
    /\ [](guide # Null => error = Null)
    /\ [](isLoading => (error = Null /\ guide = Null))
    /\ [][(~isLoading /\ isLoading') =>
              (error' = Null /\ guide' = Null)]_vars
    /\ [][(error' # Null /\ error' # error) =>
              (guide = Null /\ guide' = Null)]_vars
    /\ [][(guide' # Null /\ guide' # guide) =>
              (error = Null /\ error' = Null)]_vars

\* An invocation has just started: the Shell is loading with neither error
\* nor guide.
C25_Witness ==
    /\ pc = "readFile"
    /\ isLoading
    /\ loadingMessage = AnalyzingMessage
    /\ error = Null
    /\ guide = Null

----------------------------------------------------------------------------
(* C26 *)

\* C26: the loading message is empty exactly when the Shell is not loading;
\* a step that changes it either leaves the Shell loading with an invocation
\* outstanding and a non-empty message, or ends loading with the empty
\* message; once the invocation has settled no step gives it another
\* non-empty value.
C26_LoadingMessageOnlyWhileLoading ==
    /\ [](~isLoading => loadingMessage = "")
    /\ [](isLoading => loadingMessage # "")
    /\ [][loadingMessage' # loadingMessage =>
              \/ isLoading' /\ pc' # "idle" /\ loadingMessage' # ""
              \/ ~isLoading' /\ pc' = "idle" /\ loadingMessage' = ""]_vars
    /\ [][promise.status \in {"fulfilled", "rejected"} =>
              (loadingMessage' = "" /\ progressLog' = <<>>)]_vars

\* An invocation failed on reading the file; the Form is shown and the
\* loading message is empty again.
C26_Witness ==
    /\ FormRendered
    /\ pc = "idle"
    /\ request # Null
    /\ ~isLoading
    /\ loadingMessage = ""
    /\ error = Some(UnknownErrorMessage)

====
